---- MODULE Spec2Model ----
(***************************************************************************)
(* RealityPatch: the orchestrator (src/orchestrator.py) and the analyzers  *)
(* it drives (src/agents/*.py), as a state machine.                        *)
(*                                                                         *)
(* Numbers.  Confidences are Python floats; here a confidence is an exact  *)
(* integer count of 1/3000 (ConfOne = 1.0) and a weight is a count of      *)
(* tenths, so an overall confidence is a count of 1/30000 and every sum    *)
(* and product of the aggregation is exact.  Binary rounding of the floats *)
(* is not modelled.                                                        *)
(*                                                                         *)
(* Dicts.  A Python dict with optional keys is a record with one field per *)
(* key the orchestrator reads, plus a flag or the marker "absent" that     *)
(* says whether the key is there.                                          *)
(***************************************************************************)
EXTENDS Integers, Sequences, FiniteSets, TLC

VARIABLES
    gemini_api_key,   \* self.gemini_api_key is set (orchestrator.py:52)
    pc,               \* where the analyze call stands
    text_claim,       \* argument of the current call
    media_path,       \* argument of the current call
    tasks,            \* the list `tasks`, in creation order
    taskState,        \* per analyzer: "none", "pending", "done" or "hung"
    taskResult,       \* per analyzer: the dict its coroutine returned
    completion,       \* the analyzers in the order they completed
    result,           \* the dict analyze builds and returns
    raised,           \* the exception that left analyze ("none" if none did)
    graph,            \* ClaimGraph.graph: the nodes, in insertion order, and the edges
    community_available,  \* `import community` succeeds (claim_graph.py:97)
    ret               \* the last call on the ClaimGraph, or of a function
                      \* applied on its own, with its arguments and outcome

\* The orchestrator's variables and the ClaimGraph's.
orchVars == <<gemini_api_key, pc, text_claim, media_path, tasks, taskState,
              taskResult, completion, result, raised>>
graphVars == <<graph, community_available, ret>>

vars == <<gemini_api_key, pc, text_claim, media_path, tasks, taskState,
          taskResult, completion, result, raised, graph, community_available,
          ret>>

----------------------------------------------------------------------------
(* Bounds and input domains *)

\* 1.0 as a confidence; chosen so that tenths of it stay integers.
ConfOne == 3 * 1000

\* The longest list of claims _calculate_clarity_confidence is applied to on
\* its own: long enough for the cap of the base score (5 claims) to decide.
MaxClarityClaims == 5

\* The longest list of claims the clarity agent returns.
MaxClaims == 2

TaskNames == {"clarity", "context", "media"}

\* Values of text_claim: None, the empty string, a claim.
TextInputs == {"None", "", "The sky is green"}

\* Values of media_path: None, the empty string, a path with no file
\* behind it, a path of an existing image.
MediaInputs == {"None", "", "missing.jpg", "photo.jpg"}

ExistingFiles == {"photo.jpg"}

\* What the language model may put in "bias" and "confidence_bias" of its
\* JSON answer (contextnet_agent.py:223): any value, in or out of [0,1].
BiasValues == {"Left", "Center", "Unknown"}
ContextConfidences == {0, ConfOne \div 2, ConfOne, 5 * ConfOne, 0 - ConfOne}

\* The "confidence" of the media agent's ai_analysis: 0.0 on every path of
\* _analyze_with_ai (media_scan_agent.py:284, 330, 343).
MediaAiConfidences == {0}

----------------------------------------------------------------------------
(* Python helpers *)

Range(s) == {s[i] : i \in 1..Len(s)}

\* Mutant of Truthy: `is not None` in place of truthiness.
TruthyIsNotNone(x) == x # "None"

\* bool(x) of an Optional[str]
Truthy(x) == x \notin {"None", ""}

\* os.path.exists
PathExists(p) == p \in ExistingFiles

\* A slot of the result that holds None.
None ==
    [present |-> FALSE, status |-> "absent", error |-> "none",
     hasConf |-> FALSE, conf |-> 0, tag |-> "absent"]

\* {"error": e, "status": "failed", <confidence key>: 0.0}
FailedWithConfidence(e) ==
    [present |-> TRUE, status |-> "failed", error |-> e,
     hasConf |-> TRUE, conf |-> 0, tag |-> "absent"]

\* {"error": e, "status": "failed"}
FailedNoConfidence(e) ==
    [present |-> TRUE, status |-> "failed", error |-> e,
     hasConf |-> FALSE, conf |-> 0, tag |-> "absent"]

\* d.get(<confidence key>, 0.0)
GetConfidence(d) == IF d.hasConf THEN d.conf ELSE 0

----------------------------------------------------------------------------
(* The analyzers (src/agents) *)

\* MediaScanAgent._determine_verdict, thresholds 0.85 and 0.5.
VerdictAiGenerated == 2550
VerdictManipulated == 1500

_determine_verdict(confidence) ==
    IF confidence >= VerdictAiGenerated THEN "AI-Generated"
    ELSE IF confidence >= VerdictManipulated THEN "Manipulated"
    ELSE "Authentic"

\* MediaScanAgent.analyze_media.  outcome "error": something under its try
\* raised, and it returns {"error", "status": "failed"}.  Otherwise it
\* returns the combined result, which has "verdict" and "confidence_score"
\* and no "status" key.
analyze_media(outcome, ai_confidence) ==
    IF outcome = "error"
    THEN FailedNoConfidence("media agent error")
    ELSE [present |-> TRUE, status |-> "absent", error |-> "none",
          hasConf |-> TRUE, conf |-> ai_confidence,
          tag |-> _determine_verdict(ai_confidence)]

\* Mutant of analyze_context: the error dict without its "status" key.
analyze_context_no_status(outcome, bias, confidence_bias) ==
    [present |-> TRUE, status |-> "absent",
     error |-> IF outcome = "error" THEN "context agent error" ELSE "none",
     hasConf |-> outcome # "error", conf |-> confidence_bias,
     tag |-> IF outcome = "error" THEN "absent" ELSE bias]

\* ContextNetAgent.analyze_context.  outcome "error": it returns {"error",
\* "status": "failed"}.  Otherwise the combined result, which has "bias" and
\* "confidence_bias" and no "status" key.
analyze_context(outcome, bias, confidence_bias) ==
    IF outcome = "error"
    THEN FailedNoConfidence("context agent error")
    ELSE [present |-> TRUE, status |-> "absent", error |-> "none",
          hasConf |-> TRUE, conf |-> confidence_bias, tag |-> bias]

AgentOutcomes == {"ok", "error"}

\* What can happen in _analyze_clarity once the key is there: the import or
\* configuration of the client library raises, or run_clarity_agent (a plain
\* function, agent_clarity.py:9) returns its list.
ClarityOutcomes == {"client_error", "list_returned"}

\* `await x`: only an awaitable can be awaited; a list cannot, and the await
\* raises TypeError.
IsAwaitable(kind) == kind = "coroutine"

----------------------------------------------------------------------------
(* The orchestrator's coroutines (src/orchestrator.py) *)

\* What a coroutine returns: a dict with one key, the analyzer's type tag.
Tagged(k, v) == [key |-> k, value |-> v]

NoTaskResult == Tagged("none", None)

Min(a, b) == IF a <= b THEN a ELSE b

RECURSIVE SumSeq(_)
SumSeq(s) == IF s = <<>> THEN 0 ELSE s[1] + SumSeq(Tail(s))

\* A cleaned claim (agent_clarity.py:102-111), by the truth value of the four
\* fields _calculate_clarity_confidence looks at.
ClaimShapes ==
    [subject : BOOLEAN, predicate : BOOLEAN, object : BOOLEAN,
     quantifier : BOOLEAN]

\* The lists run_clarity_agent can return.
ClaimLists == UNION {[1..n -> ClaimShapes] : n \in 0..MaxClaims}

\* The specificity of one claim, in tenths.
Specificity(claim) ==
    (IF claim.subject THEN 3 ELSE 0) + (IF claim.predicate THEN 3 ELSE 0)
    + (IF claim.object THEN 3 ELSE 0) + (IF claim.quantifier THEN 1 ELSE 0)

\* Mutant of _calculate_clarity_confidence: the base score is not capped.
_calculate_clarity_confidence_uncapped(claims) ==
    IF claims = <<>> THEN 0
    ELSE LET base_confidence == Len(claims) * (ConfOne \div 5)
             tenths == SumSeq([i \in 1..Len(claims) |-> Specificity(claims[i])])
             specificity_adjustment == (tenths * (ConfOne \div 10)) \div Len(claims)
         IN  Min(base_confidence + specificity_adjustment \div 5, ConfOne)

\* _calculate_clarity_confidence:
\*   min(min(len * 0.2, 0.8) + (sum(specificity) / len) * 0.2, 1.0)
_calculate_clarity_confidence(claims) ==
    IF claims = <<>> THEN 0
    ELSE LET base_confidence == Min(Len(claims) * (ConfOne \div 5),
                                    (4 * ConfOne) \div 5)
             tenths == SumSeq([i \in 1..Len(claims) |-> Specificity(claims[i])])
             specificity_adjustment == (tenths * (ConfOne \div 10)) \div Len(claims)
         IN  Min(base_confidence + specificity_adjustment \div 5, ConfOne)

\* _analyze_clarity.  The success branch (orchestrator.py:159-168) is behind
\* `await run_clarity_agent(...)`, which awaits the list the agent returned.
_analyze_clarity(has_key, outcome, claims) ==
    IF ~has_key
    THEN Tagged("clarity", FailedWithConfidence("GEMINI_API_KEY not found"))
    ELSE IF outcome = "client_error"
    THEN Tagged("clarity", FailedWithConfidence("client error"))
    ELSE IF ~IsAwaitable("list")
    THEN Tagged("clarity", FailedWithConfidence("TypeError"))
    ELSE Tagged("clarity",
                [present |-> TRUE, status |-> "success", error |-> "none",
                 hasConf |-> TRUE,
                 conf |-> _calculate_clarity_confidence(claims),
                 tag |-> "absent"])

\* _analyze_media
_analyze_media(path, outcome, ai_confidence) ==
    IF ~PathExists(path)
    THEN Tagged("media", FailedWithConfidence("FileNotFoundError"))
    ELSE Tagged("media", analyze_media(outcome, ai_confidence))

\* _analyze_context
_analyze_context(outcome, bias, confidence_bias) ==
    Tagged("context", analyze_context(outcome, bias, confidence_bias))

----------------------------------------------------------------------------
(* The result dict and the aggregation *)

\* Mutant of WeightClarity: the weight 0.4 renormalised over the 0.7 of the
\* two text analyzers, rounded down.
WeightClarityRenormalised == (4 * 10) \div 7

\* AnalysisWeight, in tenths.
WeightClarity == 4
WeightMedia == 3
WeightContext == 3

\* VerdictLevel
HIGH_CONFIDENCE == "High Confidence"
MODERATE_CONFIDENCE == "Moderate Confidence"
LOW_CONFIDENCE == "Low Confidence"
INSUFFICIENT_DATA == "Insufficient Data"
CONFLICTING == "Conflicting Evidence"

\* No dict: the value of `result` between calls.
NoResult ==
    [kind |-> "none", clarity_analysis |-> None, media_analysis |-> None,
     context_analysis |-> None, overall_verdict |-> <<>>,
     has_confidence_score |-> FALSE, confidence_score |-> 0,
     verdict_level |-> "absent", conflicts |-> <<>>,
     error |-> "none", status |-> "absent"]

\* The result structure analyze starts from (orchestrator.py:75-92).
\* overall_verdict None is the empty sequence.
InitialResult ==
    [kind |-> "analysis", clarity_analysis |-> None, media_analysis |-> None,
     context_analysis |-> None, overall_verdict |-> <<>>,
     has_confidence_score |-> TRUE, confidence_score |-> 0,
     verdict_level |-> INSUFFICIENT_DATA, conflicts |-> <<>>,
     error |-> "none", status |-> "absent"]

\* The dict of the except branch of analyze (orchestrator.py:133-137): it has
\* the keys "error", "status" and "verdict_level" and no others.
ErrorResult(e) ==
    [kind |-> "error", clarity_analysis |-> None, media_analysis |-> None,
     context_analysis |-> None, overall_verdict |-> <<>>,
     has_confidence_score |-> FALSE, confidence_score |-> 0,
     verdict_level |-> INSUFFICIENT_DATA, conflicts |-> <<>>,
     error |-> e, status |-> "failed"]

\* Mutant of IsSuccess: every dict that does not say "failed" counts.
IsNotFailed(d) == d.present /\ d.status # "failed"

\* `d and d.get("status") == "success"`
IsSuccess(d) == d.present /\ d.status = "success"

\* `needle in v` for the verdict strings of the model, none of which
\* contains another.
Contains(v, needle) == v = needle

\* Mutant of DetermineVerdictLevel: the bounds are exclusive.
DetermineVerdictLevelExclusive(weighted_scores, overall_confidence) ==
    IF weighted_scores = <<>> THEN INSUFFICIENT_DATA
    ELSE IF overall_confidence > 8 * ConfOne THEN HIGH_CONFIDENCE
    ELSE IF overall_confidence > 6 * ConfOne THEN MODERATE_CONFIDENCE
    ELSE IF overall_confidence > 4 * ConfOne THEN LOW_CONFIDENCE
    ELSE INSUFFICIENT_DATA

\* "Determine verdict level" of _calculate_overall_verdict
\* (orchestrator.py:281-291), bounds 0.8, 0.6 and 0.4.
DetermineVerdictLevel(weighted_scores, overall_confidence) ==
    IF weighted_scores = <<>> THEN INSUFFICIENT_DATA
    ELSE IF overall_confidence >= 8 * ConfOne THEN HIGH_CONFIDENCE
    ELSE IF overall_confidence >= 6 * ConfOne THEN MODERATE_CONFIDENCE
    ELSE IF overall_confidence >= 4 * ConfOne THEN LOW_CONFIDENCE
    ELSE INSUFFICIENT_DATA

\* Mutant of _calculate_overall_verdict: a result with a conflict is
\* classified as VerdictLevel.CONFLICTING.
_calculate_overall_verdict_conflicting(res) ==
    LET clarity_confidence == GetConfidence(res.clarity_analysis)
        media_confidence == GetConfidence(res.media_analysis)
        context_confidence == GetConfidence(res.context_analysis)
        verdicts ==
            (IF IsSuccess(res.clarity_analysis)
                  /\ 5 * clarity_confidence > 3 * ConfOne
             THEN <<"Has verifiable claims">> ELSE <<>>)
            \o (IF IsSuccess(res.media_analysis)
                     /\ res.media_analysis.tag # "absent"
                THEN <<"Media: " \o res.media_analysis.tag>> ELSE <<>>)
            \o (IF IsSuccess(res.context_analysis)
                     /\ res.context_analysis.tag # "absent"
                THEN <<"Bias: " \o res.context_analysis.tag>> ELSE <<>>)
        weighted_scores ==
            (IF IsSuccess(res.clarity_analysis)
             THEN <<clarity_confidence * WeightClarity>> ELSE <<>>)
            \o (IF IsSuccess(res.media_analysis)
                THEN <<media_confidence * WeightMedia>> ELSE <<>>)
            \o (IF IsSuccess(res.context_analysis)
                THEN <<context_confidence * WeightContext>> ELSE <<>>)
        overall_confidence == SumSeq(weighted_scores)
        verdict_level ==
            DetermineVerdictLevel(weighted_scores, overall_confidence)
        conflicts ==
            IF Len(verdicts) > 1
               /\ (\E i \in 1..Len(verdicts) :
                       Contains(verdicts[i], "Media: Manipulated"))
               /\ (\E i \in 1..Len(verdicts) :
                       Contains(verdicts[i], "Has verifiable claims"))
            THEN <<"Conflicting evidence between media authenticity and claim verifiability">>
            ELSE <<>>
    IN  [overall_verdict |->
             IF verdicts # <<>> THEN verdicts ELSE <<"Insufficient data">>,
         confidence_score |-> overall_confidence,
         verdict_level |->
             IF conflicts # <<>> THEN CONFLICTING ELSE verdict_level,
         conflicts |-> conflicts]

\* _calculate_overall_verdict, in units of 1/(10 * ConfOne).  verdicts joined
\* by " | " is the sequence itself; conflicts None is the empty sequence.
_calculate_overall_verdict(res) ==
    LET clarity_confidence == GetConfidence(res.clarity_analysis)
        media_confidence == GetConfidence(res.media_analysis)
        context_confidence == GetConfidence(res.context_analysis)
        verdicts ==
            (IF IsSuccess(res.clarity_analysis)
                  /\ 5 * clarity_confidence > 3 * ConfOne
             THEN <<"Has verifiable claims">> ELSE <<>>)
            \o (IF IsSuccess(res.media_analysis)
                     /\ res.media_analysis.tag # "absent"
                THEN <<"Media: " \o res.media_analysis.tag>> ELSE <<>>)
            \o (IF IsSuccess(res.context_analysis)
                     /\ res.context_analysis.tag # "absent"
                THEN <<"Bias: " \o res.context_analysis.tag>> ELSE <<>>)
        weighted_scores ==
            (IF IsSuccess(res.clarity_analysis)
             THEN <<clarity_confidence * WeightClarity>> ELSE <<>>)
            \o (IF IsSuccess(res.media_analysis)
                THEN <<media_confidence * WeightMedia>> ELSE <<>>)
            \o (IF IsSuccess(res.context_analysis)
                THEN <<context_confidence * WeightContext>> ELSE <<>>)
        overall_confidence == SumSeq(weighted_scores)
        verdict_level ==
            DetermineVerdictLevel(weighted_scores, overall_confidence)
        conflicts ==
            IF Len(verdicts) > 1
               /\ (\E i \in 1..Len(verdicts) :
                       Contains(verdicts[i], "Media: Manipulated"))
               /\ (\E i \in 1..Len(verdicts) :
                       Contains(verdicts[i], "Has verifiable claims"))
            THEN <<"Conflicting evidence between media authenticity and claim verifiability">>
            ELSE <<>>
    IN  [overall_verdict |->
             IF verdicts # <<>> THEN verdicts ELSE <<"Insufficient data">>,
         confidence_score |-> overall_confidence,
         verdict_level |-> verdict_level,
         conflicts |-> conflicts]

\* result.update(verdict_data)
Update(res, verdict_data) ==
    [res EXCEPT !.overall_verdict = verdict_data.overall_verdict,
                !.confidence_score = verdict_data.confidence_score,
                !.has_confidence_score = TRUE,
                !.verdict_level = verdict_data.verdict_level,
                !.conflicts = verdict_data.conflicts]

----------------------------------------------------------------------------
(* analyze *)

\* Mutant of Dispatch: the media coroutine is created whatever media_path is.
DispatchMediaAlways(tc, mp) ==
    (IF tc \notin {"None", ""} THEN <<"clarity", "context">> ELSE <<>>)
    \o <<"media">>

\* The coroutines analyze creates, in the order it creates them.
Dispatch(tc, mp) ==
    (IF Truthy(tc) THEN <<"clarity", "context">> ELSE <<>>)
    \o (IF Truthy(mp) THEN <<"media">> ELSE <<>>)

\* Mutant of GatherComplete: return when the first awaitable has finished.
GatherFirstCompleted(ts, st) == \E i \in 1..Len(ts) : st[ts[i]] = "done"

\* asyncio.gather returns once every awaitable it was given has finished.
GatherComplete(ts, st) == \A i \in 1..Len(ts) : st[ts[i]] = "done"

\* asyncio.gather returns the results in the order of its arguments.
Gather(ts, tr) == [i \in 1..Len(ts) |-> tr[ts[i]]]

\* Mutant of ProcessResults: the results are unpacked by position, as
\* clarity, context, media.
ProcessResultsByPosition(res, analyses) ==
    [res EXCEPT
        !.clarity_analysis =
            IF Len(analyses) >= 1 THEN analyses[1].value ELSE None,
        !.context_analysis =
            IF Len(analyses) >= 2 THEN analyses[2].value ELSE None,
        !.media_analysis =
            IF Len(analyses) >= 3 THEN analyses[3].value ELSE None]

\* The loop over `analyses`: each dict puts its value in the slot its key
\* names.
RECURSIVE ProcessResults(_, _)
ProcessResults(res, analyses) ==
    IF analyses = <<>> THEN res
    ELSE LET a == Head(analyses)
             r1 == IF a.key = "clarity"
                   THEN [res EXCEPT !.clarity_analysis = a.value] ELSE res
             r2 == IF a.key = "media"
                   THEN [r1 EXCEPT !.media_analysis = a.value] ELSE r1
             r3 == IF a.key = "context"
                   THEN [r2 EXCEPT !.context_analysis = a.value] ELSE r2
         IN  ProcessResults(r3, Tail(analyses))

\* ClaimGraph.__init__: an empty nx.Graph; nothing called yet.
EmptyGraph == [nodes |-> <<>>, edges |-> {}]

NoCall == [op |-> "none"]

GraphInit ==
    /\ graph = EmptyGraph
    /\ community_available = FALSE
    /\ ret = NoCall

Init ==
    /\ gemini_api_key \in BOOLEAN
    /\ pc = "idle"
    /\ text_claim = "None"
    /\ media_path = "None"
    /\ tasks = <<>>
    /\ taskState = [t \in TaskNames |-> "none"]
    /\ taskResult = [t \in TaskNames |-> NoTaskResult]
    /\ completion = <<>>
    /\ result = NoResult
    /\ raised = "none"
    /\ GraphInit

\* analyze up to its await: validation, the result structure, the tasks.
\* A ValueError raised by the validation is caught by the except branch of
\* analyze, which returns the error dict.
Analyze(tc, mp) ==
    /\ pc = "idle"
    /\ text_claim' = tc
    /\ media_path' = mp
    /\ IF ~Truthy(tc) /\ ~Truthy(mp)
       THEN /\ result' = ErrorResult("At least one of text_claim or media_path must be provided")
            /\ pc' = "returned"
            /\ UNCHANGED <<tasks, taskState>>
       ELSE /\ result' = InitialResult
            /\ tasks' = Dispatch(tc, mp)
            /\ taskState' = [t \in TaskNames |->
                                IF t \in Range(Dispatch(tc, mp))
                                THEN "pending" ELSE "none"]
            /\ pc' = "gathering"
    /\ UNCHANGED <<gemini_api_key, taskResult, completion, raised>>
    /\ UNCHANGED graphVars

\* A coroutine finishes with the dict r.
Finish(t, r) ==
    /\ pc = "gathering"
    /\ taskState[t] = "pending"
    /\ taskState' = [taskState EXCEPT ![t] = "done"]
    /\ taskResult' = [taskResult EXCEPT ![t] = r]
    /\ completion' = Append(completion, t)
    /\ UNCHANGED <<gemini_api_key, pc, text_claim, media_path, tasks, result,
                   raised>>
    /\ UNCHANGED graphVars

ClarityDone ==
    \E outcome \in ClarityOutcomes, claims \in ClaimLists :
        Finish("clarity", _analyze_clarity(gemini_api_key, outcome, claims))

ContextDone ==
    \E outcome \in AgentOutcomes, bias \in BiasValues,
       confidence_bias \in ContextConfidences :
        Finish("context", _analyze_context(outcome, bias, confidence_bias))

MediaDone ==
    \E outcome \in AgentOutcomes, ai_confidence \in MediaAiConfidences :
        Finish("media", _analyze_media(media_path, outcome, ai_confidence))

\* An analyzer call that never returns: nothing times it out or cancels it.
Hang(t) ==
    /\ pc = "gathering"
    /\ taskState[t] = "pending"
    /\ taskState' = [taskState EXCEPT ![t] = "hung"]
    /\ UNCHANGED <<gemini_api_key, pc, text_claim, media_path, tasks,
                   taskResult, completion, result, raised>>
    /\ UNCHANGED graphVars

\* gather returns; analyze fills the slots, computes the verdict and returns.
GatherReturn ==
    /\ pc = "gathering"
    /\ GatherComplete(tasks, taskState)
    /\ LET filled == ProcessResults(result, Gather(tasks, taskResult))
       IN  result' = Update(filled, _calculate_overall_verdict(filled))
    /\ pc' = "returned"
    /\ UNCHANGED <<gemini_api_key, text_claim, media_path, tasks, taskState,
                   taskResult, completion, raised>>
    /\ UNCHANGED graphVars

\* Mutant of NextCall: the coroutines of the call and what they returned
\* stay behind for the next call.
NextCallKeepingTasks ==
    /\ pc = "returned"
    /\ pc' = "idle"
    /\ text_claim' = "None"
    /\ media_path' = "None"
    /\ result' = NoResult
    /\ UNCHANGED <<gemini_api_key, raised, tasks, taskState, taskResult,
                   completion>>
    /\ UNCHANGED graphVars

\* The caller drops the result; the next call starts from nothing.
NextCall ==
    /\ pc = "returned"
    /\ pc' = "idle"
    /\ text_claim' = "None"
    /\ media_path' = "None"
    /\ tasks' = <<>>
    /\ taskState' = [t \in TaskNames |-> "none"]
    /\ taskResult' = [t \in TaskNames |-> NoTaskResult]
    /\ completion' = <<>>
    /\ result' = NoResult
    /\ UNCHANGED <<gemini_api_key, raised>>
    /\ UNCHANGED graphVars

Next ==
    \/ \E tc \in TextInputs, mp \in MediaInputs : Analyze(tc, mp)
    \/ ClarityDone
    \/ ContextDone
    \/ MediaDone
    \/ \E t \in TaskNames : Hang(t)
    \/ GatherReturn
    \/ NextCall

Spec == Init /\ [][Next]_vars

\* The event loop resumes analyze once gather can return.
FairSpec == Spec /\ WF_vars(GatherReturn)

----------------------------------------------------------------------------
(* _calculate_overall_verdict on its own: any result dict, one application *)

\* Confidences of the slots it is applied to: 0, the 0.6 of the
\* verifiable-claims test and the values whose weighted sums land on and next
\* to 0.4, 0.6 and 0.8.
VerdictClarityConfidences ==
    {0, (3 * ConfOne) \div 5, (3 * ConfOne) \div 5 + 1, ConfOne - 1, ConfOne}
VerdictMediaConfidences == {0, (2 * ConfOne) \div 3, ConfOne}
VerdictContextConfidences == {0, ConfOne \div 3 - 1, ConfOne \div 3, ConfOne}

SuccessSlot(c, tg) ==
    [present |-> TRUE, status |-> "success", error |-> "none",
     hasConf |-> TRUE, conf |-> c, tag |-> tg]

VerdictClaritySlots ==
    {None, FailedWithConfidence("TypeError")}
    \cup {SuccessSlot(c, "absent") : c \in VerdictClarityConfidences}

VerdictMediaSlots ==
    {None, FailedNoConfidence("media agent error"), analyze_media("ok", 0)}
    \cup {SuccessSlot(c, tg) : c \in VerdictMediaConfidences,
                               tg \in {"Authentic", "Manipulated", "absent"}}

VerdictContextSlots ==
    {None, FailedNoConfidence("context agent error"),
     analyze_context("ok", "Left", ConfOne)}
    \cup {SuccessSlot(c, tg) : c \in VerdictContextConfidences,
                               tg \in {"Left", "absent"}}

InitVerdict ==
    /\ gemini_api_key = TRUE
    /\ pc = "verdict_in"
    /\ text_claim = "None"
    /\ media_path = "None"
    /\ tasks = <<>>
    /\ taskState = [t \in TaskNames |-> "none"]
    /\ taskResult = [t \in TaskNames |-> NoTaskResult]
    /\ completion = <<>>
    /\ raised = "none"
    /\ GraphInit
    /\ \E c \in VerdictClaritySlots, m \in VerdictMediaSlots,
          x \in VerdictContextSlots :
           result = [InitialResult EXCEPT !.clarity_analysis = c,
                                          !.media_analysis = m,
                                          !.context_analysis = x]

CalcVerdict ==
    /\ pc = "verdict_in"
    /\ result' = Update(result, _calculate_overall_verdict(result))
    /\ pc' = "verdict_out"
    /\ UNCHANGED <<gemini_api_key, text_claim, media_path, tasks, taskState,
                   taskResult, completion, raised>>
    /\ UNCHANGED graphVars

NextVerdict == CalcVerdict

SpecVerdict == InitVerdict /\ [][NextVerdict]_vars

----------------------------------------------------------------------------
(* Vocabulary of the properties *)

\* The result slot of an analyzer.
Slot(t) ==
    IF t = "clarity" THEN result.clarity_analysis
    ELSE IF t = "media" THEN result.media_analysis
    ELSE result.context_analysis

Weight(t) ==
    IF t = "clarity" THEN 4 ELSE 3

TextPresent == text_claim \notin {"None", ""}
MediaPresent == media_path \notin {"None", ""}

\* analyze returned the combined analysis (not the error dict).
ReturnedAnalysis == pc = "returned" /\ result.kind = "analysis"

\* The analyzer ran to its end and reported no error.
AnalyzerSucceeded(t) ==
    taskState[t] = "done" /\ taskResult[t].value.error = "none"

\* The analyzer ran to its end and raised or reported an error.
AnalyzerFailed(t) ==
    taskState[t] = "done" /\ taskResult[t].value.error # "none"

\* The confidence the analyzer reported.
ReportedConfidence(t) ==
    IF taskResult[t].value.hasConf THEN taskResult[t].value.conf ELSE 0

\* What the slot of t adds to the overall confidence.
CountedContribution(t) ==
    IF Slot(t).present /\ Slot(t).status = "success"
    THEN (IF Slot(t).hasConf THEN Slot(t).conf ELSE 0) * Weight(t)
    ELSE 0

\* Every analyzer that ran reported a confidence in [0, 1].
ReportsInRange ==
    \A t \in TaskNames :
        ReportedConfidence(t) >= 0 /\ ReportedConfidence(t) <= ConfOne

\* Sum over the analyzers of S that succeeded of confidence x weight.
RECURSIVE SuccessSum(_)
SuccessSum(S) ==
    IF S = {} THEN 0
    ELSE LET t == CHOOSE x \in S : TRUE
         IN  (IF AnalyzerSucceeded(t)
              THEN ReportedConfidence(t) * Weight(t) ELSE 0)
             + SuccessSum(S \ {t})

----------------------------------------------------------------------------
(* Properties of analyze *)

ValidationMessage == "At least one of text_claim or media_path must be provided"

C3_FailureCaptured ==
    pc = "returned" =>
        \A t \in TaskNames :
            AnalyzerFailed(t) =>
                /\ Slot(t).present
                /\ Slot(t).status = "failed"
                /\ Slot(t).error = taskResult[t].value.error
                /\ (IF Slot(t).hasConf THEN Slot(t).conf ELSE 0) = 0
                /\ result.kind = "analysis"
                /\ raised = "none"

C3_Witness ==
    /\ pc = "returned"
    /\ AnalyzerFailed("clarity")
    /\ AnalyzerFailed("context")
    /\ AnalyzerFailed("media")
    /\ media_path = "photo.jpg"
    /\ result.context_analysis.status = "failed"

\* C4: the confidence score of every analysis analyze returns lies in
\* [0.0, 1.0], whatever the analyzers reported.
C4_ConfidenceInUnitInterval ==
    ReturnedAnalysis =>
        /\ result.has_confidence_score
        /\ result.confidence_score >= 0
        /\ result.confidence_score <= 10 * ConfOne

C4_Witness ==
    /\ ReturnedAnalysis
    /\ AnalyzerSucceeded("context")
    /\ ReportedConfidence("context") = 5 * ConfOne
    /\ AnalyzerSucceeded("media")

\* C5: the verdict level is decided by the overall confidence: High
\* Confidence from 0.8, Moderate Confidence from 0.6 to below 0.8, Low
\* Confidence from 0.4 to below 0.6, Insufficient Data below 0.4 or when no
\* analyzer contributed.
C5_VerdictLevelByConfidence ==
    pc = "verdict_out" =>
        LET c == result.confidence_score
            contributed ==
                \E t \in TaskNames :
                    Slot(t).present /\ Slot(t).status = "success"
        IN  /\ (contributed /\ c >= 24000)
                 <=> result.verdict_level = "High Confidence"
            /\ (contributed /\ c >= 18000 /\ c < 24000)
                 <=> result.verdict_level = "Moderate Confidence"
            /\ (contributed /\ c >= 12000 /\ c < 18000)
                 <=> result.verdict_level = "Low Confidence"
            /\ (~contributed \/ c < 12000)
                 <=> result.verdict_level = "Insufficient Data"

C5_Witness ==
    /\ pc = "verdict_out"
    /\ result.confidence_score = 24000
    /\ result.verdict_level = "High Confidence"

C7_CompletedAnalyzerCounts ==
    ReturnedAnalysis =>
        \A t \in {"media", "context"} :
            AnalyzerSucceeded(t) =>
                /\ Slot(t).present /\ Slot(t).status = "success"
                /\ CountedContribution(t) = ReportedConfidence(t) * Weight(t)
                /\ \E i \in 1..Len(result.overall_verdict) :
                       result.overall_verdict[i]
                         = (IF t = "media" THEN "Media: " ELSE "Bias: ")
                           \o taskResult[t].value.tag

\* C8: the analyzers started are clarity and context when a text claim is
\* given, and media when a media path is given, and no others; the slot of an
\* analyzer that was not started is None in the result.
C8_DispatchByInput ==
    (pc \in {"gathering", "returned"} /\ result.kind = "analysis") =>
        LET expected ==
                (IF TextPresent THEN {"clarity", "context"} ELSE {})
                \cup (IF MediaPresent THEN {"media"} ELSE {})
        IN  /\ Range(tasks) = expected
            /\ Len(tasks) = Cardinality(expected)
            /\ \A t \in TaskNames :
                   /\ taskState[t] # "none" <=> t \in expected
                   /\ t \notin expected =>
                         ~Slot(t).present /\ taskResult[t] = NoTaskResult
                   /\ (t \in expected /\ pc = "returned") => Slot(t).present

C8_Witness ==
    /\ pc = "returned"
    /\ text_claim = ""
    /\ media_path = "photo.jpg"
    /\ result.media_analysis.present
    /\ ~result.clarity_analysis.present
    /\ ~result.context_analysis.present

\* C9: the returned analysis does not depend on the order in which the
\* analyzers completed: each slot holds what the analyzer of that name
\* returned, and confidence, level, summary and conflicts are those of these
\* slots.
C9_OrderIndependent ==
    ReturnedAnalysis =>
        LET byTag(t) ==
                IF taskState[t] = "done" THEN taskResult[t].value ELSE None
            slots ==
                [InitialResult EXCEPT !.clarity_analysis = byTag("clarity"),
                                      !.media_analysis = byTag("media"),
                                      !.context_analysis = byTag("context")]
        IN  /\ \A t \in TaskNames :
                   taskState[t] = "done" => taskResult[t].key = t
            /\ result = Update(slots, _calculate_overall_verdict(slots))

C9_Witness ==
    /\ ReturnedAnalysis
    /\ completion = <<"media", "context", "clarity">>
    /\ tasks = <<"clarity", "context", "media">>

\* C10: analyze returns only when every scheduled analyzer has completed;
\* once one of them hangs the call stays in the gather for ever; and when
\* all have completed analyze does return.
C10_FanIn ==
    /\ [](ReturnedAnalysis =>
              /\ Len(completion) = Len(tasks)
              /\ \A t \in Range(tasks) : taskState[t] = "done")
    /\ []((\E t \in TaskNames : taskState[t] = "hung") => [](pc = "gathering"))
    /\ ((pc = "gathering" /\ \A t \in Range(tasks) : taskState[t] = "done")
            ~> (pc = "returned"))

C10_Witness ==
    /\ ReturnedAnalysis
    /\ Len(tasks) = 3
    /\ Len(completion) = 3

----------------------------------------------------------------------------
(* _calculate_clarity_confidence on its own: any list, one application *)

\* The claims of these lists: nothing present, the quantifier alone, the
\* subject alone, all but the quantifier, everything.
ClarityShapes ==
    {c \in ClaimShapes :
        \/ (~c.subject /\ ~c.predicate /\ ~c.object)
        \/ (c.subject /\ ~c.predicate /\ ~c.object /\ ~c.quantifier)
        \/ (c.subject /\ c.predicate /\ c.object)}

ClarityLists == UNION {[1..n -> ClarityShapes] : n \in 0..MaxClarityClaims}

\* Everything outside the function applied stays as constructed.
OrchIdle ==
    /\ gemini_api_key = TRUE
    /\ pc = "idle"
    /\ text_claim = "None"
    /\ media_path = "None"
    /\ tasks = <<>>
    /\ taskState = [t \in TaskNames |-> "none"]
    /\ taskResult = [t \in TaskNames |-> NoTaskResult]
    /\ completion = <<>>
    /\ result = NoResult
    /\ raised = "none"

InitClarity ==
    /\ OrchIdle
    /\ graph = EmptyGraph
    /\ community_available = FALSE
    /\ \E claims \in ClarityLists :
           ret = [op |-> "clarity_in", arg |-> claims, value |-> 0]

CalcClarity ==
    /\ ret.op = "clarity_in"
    /\ ret' = [op |-> "clarity_out", arg |-> ret.arg,
               value |-> _calculate_clarity_confidence(ret.arg)]
    /\ UNCHANGED <<graph, community_available>>
    /\ UNCHANGED orchVars

NextClarity == CalcClarity

SpecClarity == InitClarity /\ [][NextClarity]_vars

----------------------------------------------------------------------------
(* Properties of the aggregation, continued *)

RECURSIVE CountField(_, _)
CountField(claims, f) ==
    IF claims = <<>> THEN 0
    ELSE (IF Head(claims)[f] THEN 1 ELSE 0) + CountField(Tail(claims), f)

\* C12: for a non-empty list of n claims the clarity confidence is
\* min(min(0.2 n, 0.8) + 0.2 x average completeness, 1.0), completeness being
\* 0.3 each for subject, predicate and object and 0.1 for the quantifier; it
\* lies in [0, 1]; two fully complete claims give 0.6.  (Stated times n, in
\* units of 1/3000: 0.2 x completeness summed over the list is 60 per tenth.)
C12_ClarityConfidence ==
    (ret.op = "clarity_out" /\ ret.arg # <<>>) =>
        LET n == Len(ret.arg)
            tenths == 3 * CountField(ret.arg, "subject")
                      + 3 * CountField(ret.arg, "predicate")
                      + 3 * CountField(ret.arg, "object")
                      + CountField(ret.arg, "quantifier")
            base == IF 600 * n <= 2400 THEN 600 * n ELSE 2400
            uncapped == base * n + 60 * tenths
        IN  /\ ret.value * n = (IF uncapped <= 3000 * n THEN uncapped ELSE 3000 * n)
            /\ ret.value >= 0
            /\ ret.value <= 3000
            /\ (n = 2 /\ tenths = 20) => ret.value = 1800

C12_Witness ==
    /\ ret.op = "clarity_out"
    /\ Len(ret.arg) = 5
    /\ ret.value = 2400

----------------------------------------------------------------------------
(* ClaimGraph: texts and their TF-IDF similarity *)

\* The deepest max_depth and the largest top_n a query is called with.
MaxDepth == 3
MaxTopN == 3

\* The identifiers claims are inserted under (str(claim['id'])).
ClaimIds == {"A", "B", "C"}

ClaimOrder == [id \in ClaimIds |-> IF id = "A" THEN 1 ELSE IF id = "B" THEN 2 ELSE 3]

\* A text is the sequence of its lower-case words of two letters or more;
\* the vectorizer drops the English stop words.
StopWords == {"the", "is"}

NoText == <<>>

\* The claims add_claim is called with: claim_text, and the optional subject,
\* predicate and object (absent reads as '', the empty text).  confidence,
\* status and created_at are left to their defaults.
ClaimInputs ==
    { [claim_text |-> <<"the", "sky">>, subject |-> <<"sky">>,
       predicate |-> NoText, object |-> NoText],
      [claim_text |-> <<"the", "sky">>, subject |-> NoText,
       predicate |-> NoText, object |-> NoText],
      [claim_text |-> <<"sky", "is", "moon">>, subject |-> <<"sky">>,
       predicate |-> <<"is">>, object |-> <<"moon">>],
      [claim_text |-> <<"moon">>, subject |-> <<"moon">>,
       predicate |-> NoText, object |-> NoText],
      [claim_text |-> <<"the">>, subject |-> NoText,
       predicate |-> NoText, object |-> NoText] }

\* The analyzer of TfidfVectorizer(stop_words='english'): the words kept.
Tokens(text) == SelectSeq(text, LAMBDA w : w \notin StopWords)

\* Term frequency: the occurrences of a term among the tokens of a text.
TermCount(text, term) ==
    Cardinality({i \in DOMAIN Tokens(text) : Tokens(text)[i] = term})

\* The vocabulary fitted on a list of texts.
Vocabulary(texts) == UNION {Range(Tokens(texts[i])) : i \in DOMAIN texts}

\* The number of texts a term occurs in.
DocumentFrequency(texts, term) ==
    Cardinality({i \in DOMAIN texts : term \in Range(Tokens(texts[i]))})

\* The smoothed inverse document frequency ln((1 + n) / (1 + df)) + 1 of
\* sklearn, in hundredths, for n documents (row) and df of them (column).
SmoothIdf ==
    << <<100>>,
       <<141, 100>>,
       <<169, 129, 100>>,
       <<192, 151, 122, 100>>,
       <<210, 169, 141, 118, 100>> >>

Idf(texts, term) == SmoothIdf[Len(texts)][DocumentFrequency(texts, term)]

RECURSIVE SumOver(_, _)
SumOver(S, f) ==
    IF S = {} THEN 0
    ELSE LET x == CHOOSE y \in S : TRUE
         IN  f[x] + SumOver(S \ {x}, f)

\* The inner product of the TF-IDF rows of texts i and j (before
\* normalisation), in units of 1/10000.
TfidfDot(texts, i, j) ==
    LET V == Vocabulary(texts)
    IN  SumOver(V, [t \in V |-> TermCount(texts[i], t) * TermCount(texts[j], t)
                                   * Idf(texts, t) * Idf(texts, t)])

\* The integer square root, by Newton's iteration from above.
RECURSIVE NewtonSqrt(_, _)
NewtonSqrt(x, r) ==
    LET next == (r + x \div r) \div 2
    IN  IF next >= r THEN r ELSE NewtonSqrt(x, next)

Isqrt(x) == IF x = 0 THEN 0 ELSE NewtonSqrt(x, x)

\* One unit of similarity: scores are in thousandths.
ScoreOne == 1000

\* The similarity threshold 0.3 of _add_similarity_edges.
SimilarityThreshold == 3 * (ScoreOne \div 10)

\* cosine_similarity of the (l2-normalised) TF-IDF rows of texts i and j,
\* rounded down to thousandths; a row without a term of the vocabulary is
\* the zero row and has similarity 0 with every row.
cosine_similarity(texts, i, j) ==
    LET norm_i == Isqrt(100 * TfidfDot(texts, i, i))
        norm_j == Isqrt(100 * TfidfDot(texts, j, j))
    IN  IF norm_i = 0 \/ norm_j = 0 THEN 0
        ELSE (TfidfDot(texts, i, j) * ScoreOne) \div ((norm_i * norm_j) \div 100)

----------------------------------------------------------------------------
(* ClaimGraph: the graph and add_claim *)

\* The node identifiers of a graph, and the index of one of them.
NodeIds(g) == {g.nodes[i].id : i \in DOMAIN g.nodes}

NodeIndex(g, id) == CHOOSE i \in DOMAIN g.nodes : g.nodes[i].id = id

\* nx.Graph.add_node: a new node goes last; an existing node keeps its place
\* and its edges and takes the new attributes.
add_node(g, id, data) ==
    IF id \in NodeIds(g)
    THEN [g EXCEPT !.nodes[NodeIndex(g, id)] = [id |-> id, data |-> data]]
    ELSE [g EXCEPT !.nodes = Append(g.nodes, [id |-> id, data |-> data])]

\* Mutant of add_edge: the new edge replaces all the edges of the graph.
add_edge_alone(g, u, v, data) ==
    [g EXCEPT !.edges = {[ends |-> {u, v}, data |-> data]}]

\* nx.Graph.add_edge between two nodes of the graph: one undirected edge per
\* pair of nodes; adding it again replaces its attributes.
add_edge(g, u, v, data) ==
    [g EXCEPT !.edges = {e \in g.edges : e.ends # {u, v}}
                            \cup {[ends |-> {u, v}, data |-> data]}]

\* The attributes add_claim gives the node of a claim.
NodeData(claim) ==
    [type |-> "claim", text |-> claim.claim_text, subject |-> claim.subject,
     predicate |-> claim.predicate, object |-> claim.object,
     confidence |-> 0, status |-> "Unknown", created_at |-> "now"]

\* _add_similarity_edges: g is the graph with the claim's node inserted.  The
\* result is the graph and the exception that left the method, if any.
\* Mutant of AddScoredEdges: an edge for every score, whatever the threshold.
RECURSIVE AddScoredEdgesAll(_, _, _, _, _)
AddScoredEdgesAll(g, claim_id, existing, texts, k) ==
    IF k > Len(existing) THEN g
    ELSE AddScoredEdgesAll(
             add_edge(g, claim_id, existing[k].id,
                      [weight |-> cosine_similarity(texts, Len(texts), k),
                       type |-> "similarity"]),
             claim_id, existing, texts, k + 1)

RECURSIVE AddScoredEdges(_, _, _, _, _)
AddScoredEdges(g, claim_id, existing, texts, k) ==
    IF k > Len(existing) THEN g
    ELSE LET score == cosine_similarity(texts, Len(texts), k)
             g2 == IF score > SimilarityThreshold
                   THEN add_edge(g, claim_id, existing[k].id,
                                 [weight |-> score, type |-> "similarity"])
                   ELSE g
         IN  AddScoredEdges(g2, claim_id, existing, texts, k + 1)

_add_similarity_edges(g, claim_id, claim) ==
    IF Len(g.nodes) < 2 THEN [graph |-> g, raised |-> "none"]
    ELSE LET claim_text == claim.subject \o claim.predicate \o claim.object
             existing == SelectSeq(g.nodes, LAMBDA n : n.id # claim_id)
             texts == [k \in 1..Len(existing) |-> existing[k].data.text]
                          \o <<claim_text>>
         IN  IF Vocabulary(texts) = {}
             THEN [graph |-> g, raised |-> "ValueError"]
             ELSE [graph |-> AddScoredEdges(g, claim_id, existing, texts, 1),
                   raised |-> "none"]

add_claim(g, claim_id, claim) ==
    _add_similarity_edges(add_node(g, claim_id, NodeData(claim)), claim_id, claim)

----------------------------------------------------------------------------
(* ClaimGraph: the queries *)

\* {'id': node, **attributes}: the dict a node is returned and serialised as.
NodeDict(node) == ("id" :> node.id) @@ node.data

NodeOf(g, id) == g.nodes[NodeIndex(g, id)]

\* nx.Graph.neighbors
neighbors(g, n) == {m \in NodeIds(g) : \E e \in g.edges : e.ends = {n, m}}

\* The loop of get_connected_claims: max_depth rounds, each replacing the
\* current nodes by all their neighbours and adding these to the result.
RECURSIVE ExpandFrontier(_, _, _, _)
ExpandFrontier(g, current_nodes, connected_nodes, rounds) ==
    IF rounds <= 0 THEN connected_nodes
    ELSE LET next_nodes == UNION {neighbors(g, n) : n \in current_nodes}
         IN  ExpandFrontier(g, next_nodes, connected_nodes \cup next_nodes,
                            rounds - 1)

\* Mutant of get_connected_claims: no test of claim_id against the graph;
\* nx.Graph.neighbors of an unknown node raises NetworkXError.
get_connected_claims_unguarded(g, claim_id, max_depth) ==
    IF claim_id \notin NodeIds(g) /\ max_depth > 0
    THEN [value |-> {}, raised |-> "NetworkXError"]
    ELSE [value |-> {NodeDict(NodeOf(g, n)) :
                        n \in ExpandFrontier(g, {claim_id}, {}, max_depth)},
          raised |-> "none"]

\* get_connected_claims: the returned list, as the set of its dicts (it is
\* built from a set, each node once, in no particular order).
get_connected_claims(g, claim_id, max_depth) ==
    IF claim_id \notin NodeIds(g)
    THEN [value |-> {}, raised |-> "none"]
    ELSE [value |-> {NodeDict(NodeOf(g, n)) :
                        n \in ExpandFrontier(g, {claim_id}, {}, max_depth)},
          raised |-> "none"]

\* The nodes joined to a set of nodes by a path.
RECURSIVE Closure(_, _)
Closure(g, S) ==
    LET more == S \cup UNION {neighbors(g, n) : n \in S}
    IN  IF more = S THEN S ELSE Closure(g, more)

\* Mutant of connected_components: every node a component of its own.
singleton_components(g) == {{n} : n \in NodeIds(g)}

\* nx.connected_components
connected_components(g) == {Closure(g, {n}) : n \in NodeIds(g)}

\* The ways of splitting a set into non-empty groups.
Partitions(S) ==
    {P \in SUBSET (SUBSET S \ {{}}) :
        /\ UNION P = S
        /\ \A a, b \in P : a # b => a \cap b = {}}

\* community.best_partition (Louvain, randomised): the partitions it may
\* return.  Without edges every node is a community of its own; otherwise
\* nodes only ever join the community of a neighbour, so no community spans
\* two connected components.
best_partition(g) ==
    IF g.edges = {} THEN {{{n} : n \in NodeIds(g)}}
    ELSE {P \in Partitions(NodeIds(g)) :
             \A c \in P : \E k \in connected_components(g) : c \subseteq k}

\* Mutant of get_community_claims: no early return for small graphs.
get_community_claims_unguarded(g, available) ==
    IF available THEN best_partition(g) ELSE {connected_components(g)}

\* get_community_claims: the results it may return, each the set of its
\* groups; available tells whether `import community` succeeds.
get_community_claims(g, available) ==
    IF Len(g.nodes) < 2 THEN {{}}
    ELSE IF available THEN best_partition(g)
    ELSE {connected_components(g)}

\* The length of a shortest path from the frontier to t, -1 without a path.
RECURSIVE Distance(_, _, _, _, _)
Distance(g, frontier, seen, t, d) ==
    IF t \in frontier THEN d
    ELSE IF frontier = {} THEN 0 - 1
    ELSE Distance(g, (UNION {neighbors(g, n) : n \in frontier}) \ seen,
                  seen \cup frontier, t, d + 1)

ShortestPath(g, s, t) == Distance(g, {s}, {}, t, 0)

\* The number of shortest paths from s to t.
RECURSIVE ShortestPathCount(_, _, _)
ShortestPathCount(g, s, t) ==
    IF s = t THEN 1
    ELSE IF ShortestPath(g, s, t) < 0 THEN 0
    ELSE LET before == {u \in neighbors(g, t) :
                           ShortestPath(g, s, u) = ShortestPath(g, s, t) - 1}
         IN  SumOver(before, [u \in before |-> ShortestPathCount(g, s, u)])

\* The number of shortest paths from s to t that pass through v.
PathsThrough(g, s, t, v) ==
    IF /\ ShortestPath(g, s, v) >= 0
       /\ ShortestPath(g, v, t) >= 0
       /\ ShortestPath(g, s, v) + ShortestPath(g, v, t) = ShortestPath(g, s, t)
    THEN ShortestPathCount(g, s, v) * ShortestPathCount(g, v, t)
    ELSE 0

\* One unit of centrality: scores are in 600ths.
CentralityOne == 600

\* nx.betweenness_centrality (unweighted, normalised): for each node the
\* share of the shortest paths between the other pairs of nodes that pass
\* through it, scaled by 2 / ((n - 1)(n - 2)) when n > 2.
betweenness_centrality(g) ==
    LET n == Len(g.nodes)
    IN  [v \in NodeIds(g) |->
            LET pairs == {p \in SUBSET (NodeIds(g) \ {v}) :
                             /\ Cardinality(p) = 2
                             /\ \E s, t \in p :
                                    s # t /\ ShortestPath(g, s, t) >= 0}
                share == [p \in pairs |->
                             LET s == CHOOSE x \in p : TRUE
                                 t == CHOOSE x \in p : x # s
                             IN  (CentralityOne * PathsThrough(g, s, t, v))
                                     \div ShortestPathCount(g, s, t)]
                total == SumOver(pairs, share)
            IN  IF n > 2 THEN (2 * total) \div ((n - 1) * (n - 2)) ELSE total]

\* Mutant of SortedDescending: the items in the order given.
Unsorted(items, key) == items

\* sorted(items, key, reverse=True): descending by key, items of equal key
\* in the order given (the sort is stable).
RECURSIVE SortedDescending(_, _)
SortedDescending(items, key) ==
    IF items = <<>> THEN <<>>
    ELSE LET first == CHOOSE i \in DOMAIN items :
                          /\ \A j \in DOMAIN items : key[items[j]] <= key[items[i]]
                          /\ \A j \in 1..(i - 1) : key[items[j]] < key[items[i]]
             rest == [j \in 1..(Len(items) - 1) |->
                         IF j < first THEN items[j] ELSE items[j + 1]]
         IN  <<items[first]>> \o SortedDescending(rest, key)

\* seq[:n] of Python: the first n items, or all but the last -n.
Slice(seq, n) ==
    IF n >= 0 THEN SubSeq(seq, 1, Min(n, Len(seq)))
    ELSE SubSeq(seq, 1, Len(seq) + n)

\* get_central_claims: the returned list of dicts.
get_central_claims(g, top_n) ==
    IF Len(g.nodes) < 2 THEN <<>>
    ELSE LET centrality == betweenness_centrality(g)
             ids == [k \in DOMAIN g.nodes |-> g.nodes[k].id]
             central_nodes == Slice(SortedDescending(ids, centrality), top_n)
         IN  [k \in DOMAIN central_nodes |->
                 ("centrality" :> centrality[central_nodes[k]])
                     @@ NodeDict(NodeOf(g, central_nodes[k]))]

----------------------------------------------------------------------------
(* ClaimGraph: serialisation *)

\* {'source': u, 'target': v, **attributes}: u is the end that comes first
\* among the nodes, as nx.Graph.edges reports the edge.
EdgeDict(g, e) ==
    LET u == CHOOSE x \in e.ends :
                 \A y \in e.ends : NodeIndex(g, x) <= NodeIndex(g, y)
        v == CHOOSE y \in e.ends : y # u
    IN  ("source" :> u) @@ ("target" :> v) @@ e.data

\* to_json: the document json.dumps serialises; the list of nodes in the
\* order of the graph, the list of edges as the set of its dicts.
to_json(g) ==
    [nodes |-> [k \in DOMAIN g.nodes |-> NodeDict(g.nodes[k])],
     edges |-> {EdgeDict(g, e) : e \in g.edges}]

\* dict.pop of some keys: what is left of the dict.
Without(d, keys) == [f \in (DOMAIN d) \ keys |-> d[f]]

RECURSIVE LoadNodes(_, _, _)
LoadNodes(g, nodes, k) ==
    IF k > Len(nodes) THEN g
    ELSE LoadNodes(add_node(g, nodes[k].id, Without(nodes[k], {"id"})),
                   nodes, k + 1)

RECURSIVE LoadEdges(_, _)
LoadEdges(g, edges) ==
    IF edges = {} THEN g
    ELSE LET edge == CHOOSE e \in edges : TRUE
         IN  LoadEdges(add_edge(g, edge.source, edge.target,
                                Without(edge, {"source", "target"})),
                       edges \ {edge})

\* Mutant of from_json: every edge is loaded with the weight 1.0.
from_json_unit_weights(data) ==
    LET loaded == LoadNodes(EmptyGraph, data.nodes, 1)
    IN  [loaded EXCEPT !.edges =
            {[ends |-> {e.source, e.target},
              data |-> [weight |-> ScoreOne, type |-> e.type]] : e \in data.edges}]

\* from_json: the graph after graph.clear() and the two loading loops, for
\* the document json.loads parsed.
from_json(data) ==
    LoadEdges(LoadNodes(EmptyGraph, data.nodes, 1), data.edges)

\* The first index of a node dict without 'id', 0 when every one has it.
FirstNodeWithoutId(nodes) ==
    IF \A k \in DOMAIN nodes : "id" \in DOMAIN nodes[k] THEN 0
    ELSE CHOOSE k \in DOMAIN nodes :
             /\ "id" \notin DOMAIN nodes[k]
             /\ \A j \in 1..(k - 1) : "id" \in DOMAIN nodes[j]

\* The edge dicts both ends of which can be popped.
EdgesWithEnds(edges) ==
    {e \in edges : "source" \in DOMAIN e /\ "target" \in DOMAIN e}

\* from_json on any string: parses tells whether json.loads accepts it, data
\* is what it parses to.  The result is the graph the call leaves and the
\* exception that left it, if any.  json.loads comes before graph.clear();
\* a missing key raises KeyError where it is read, with the graph as the
\* loops built it so far.  An edge dict without an end stands last in the
\* list of edges of the documents of this model.
from_json_call(g, parses, data) ==
    IF ~parses THEN [graph |-> g, raised |-> "JSONDecodeError"]
    ELSE IF "nodes" \notin DOMAIN data
    THEN [graph |-> EmptyGraph, raised |-> "KeyError"]
    ELSE IF FirstNodeWithoutId(data.nodes) # 0
    THEN [graph |-> LoadNodes(EmptyGraph,
                              SubSeq(data.nodes, 1,
                                     FirstNodeWithoutId(data.nodes) - 1), 1),
          raised |-> "KeyError"]
    ELSE IF "edges" \notin DOMAIN data
    THEN [graph |-> LoadNodes(EmptyGraph, data.nodes, 1), raised |-> "KeyError"]
    ELSE IF EdgesWithEnds(data.edges) # data.edges
    THEN [graph |-> LoadEdges(LoadNodes(EmptyGraph, data.nodes, 1),
                              EdgesWithEnds(data.edges)),
          raised |-> "KeyError"]
    ELSE [graph |-> from_json(data), raised |-> "none"]

\* The ways a persisted document is damaged.
Damages ==
    {"invalid_json", "no_nodes", "no_edges", "node_without_id",
     "edge_without_source", "edge_without_target"}

\* Whether a kind of damage can be done to a document.
CanDamage(data, damage) ==
    /\ damage = "node_without_id" => data.nodes # <<>>
    /\ damage \in {"edge_without_source", "edge_without_target"} => data.edges # {}

\* A document of to_json with one kind of damage: a key of the document
\* missing, the last node without its 'id', one edge without an end.
Damaged(data, damage) ==
    IF damage = "no_nodes" THEN Without(data, {"nodes"})
    ELSE IF damage = "no_edges" THEN Without(data, {"edges"})
    ELSE IF damage = "node_without_id"
    THEN [data EXCEPT !.nodes[Len(data.nodes)] = Without(@, {"id"})]
    ELSE IF damage \in {"edge_without_source", "edge_without_target"}
    THEN LET edge == CHOOSE e \in data.edges : TRUE
             key == IF damage = "edge_without_source" THEN "source" ELSE "target"
         IN  [data EXCEPT !.edges = (@ \ {edge}) \cup {Without(edge, {key})}]
    ELSE data

----------------------------------------------------------------------------
(* ClaimGraph: the calls *)

\* The identifiers queries are made with: those of claims, and one that no
\* claim has.
QueryIds == ClaimIds \cup {"Z"}

InitGraph ==
    /\ OrchIdle
    /\ graph = EmptyGraph
    /\ community_available \in BOOLEAN
    /\ ret = NoCall

\* Every claim is inserted under an identifier of its own, and the
\* identifiers are given out in the order A, B, C.
NextId(g) == CHOOSE id \in ClaimIds :
                 /\ id \notin NodeIds(g)
                 /\ \A other \in ClaimIds \ NodeIds(g) : ClaimOrder[id] <= ClaimOrder[other]

AddClaim(id, claim) ==
    LET r == add_claim(graph, id, claim)
    IN  /\ NodeIds(graph) # ClaimIds
        /\ id = NextId(graph)
        /\ graph' = r.graph
        /\ ret' = [op |-> "add_claim", claim_id |-> id, claim |-> claim,
                   raised |-> r.raised]
        /\ UNCHANGED community_available
        /\ UNCHANGED orchVars

GetConnectedClaims(id, depth) ==
    LET r == get_connected_claims(graph, id, depth)
    IN  /\ ret' = [op |-> "get_connected_claims", claim_id |-> id,
                   max_depth |-> depth, value |-> r.value, raised |-> r.raised]
        /\ UNCHANGED <<graph, community_available>>
        /\ UNCHANGED orchVars

GetCommunityClaims ==
    /\ \E communities \in get_community_claims(graph, community_available) :
           ret' = [op |-> "get_community_claims", value |-> communities]
    /\ UNCHANGED <<graph, community_available>>
    /\ UNCHANGED orchVars

\* Mutant of GetCentralClaims: the call keeps only the nodes it returns.
GetCentralClaimsEvicting(n) ==
    LET value == get_central_claims(graph, n)
        kept == {value[k].id : k \in DOMAIN value}
    IN  /\ ret' = [op |-> "get_central_claims", top_n |-> n, value |-> value]
        /\ graph' = [nodes |-> SelectSeq(graph.nodes, LAMBDA node : node.id \in kept),
                     edges |-> {e \in graph.edges : e.ends \subseteq kept}]
        /\ UNCHANGED community_available
        /\ UNCHANGED orchVars

GetCentralClaims(n) ==
    /\ ret' = [op |-> "get_central_claims", top_n |-> n,
               value |-> get_central_claims(graph, n)]
    /\ UNCHANGED <<graph, community_available>>
    /\ UNCHANGED orchVars

ToJson ==
    /\ ret' = [op |-> "to_json", value |-> to_json(graph)]
    /\ UNCHANGED <<graph, community_available>>
    /\ UNCHANGED orchVars

\* add_claim with a claim dict that lacks 'id' or 'claim_text': the KeyError
\* leaves add_claim while the arguments of add_node are evaluated.
AddClaimIncomplete(missing) ==
    /\ ret' = [op |-> "add_claim", claim_id |-> "", missing |-> missing,
               raised |-> "KeyError"]
    /\ UNCHANGED <<graph, community_available>>
    /\ UNCHANGED orchVars

\* The documents from_json is called with: the one the last to_json
\* returned, and the one saved from a graph without claims.
SavedDocuments ==
    (IF ret.op = "to_json" THEN {ret.value} ELSE {}) \cup {to_json(EmptyGraph)}

FromJson ==
    \E data \in SavedDocuments :
        LET r == from_json_call(graph, TRUE, data)
        IN  /\ graph' = r.graph
            /\ ret' = [op |-> "from_json", json_data |-> data, parses |-> TRUE,
                       raised |-> r.raised]
            /\ UNCHANGED community_available
            /\ UNCHANGED orchVars

\* from_json is called with a damaged copy of the document the last to_json
\* returned.
FromJsonDamaged(damage) ==
    /\ ret.op = "to_json"
    /\ CanDamage(ret.value, damage)
    /\ LET data == Damaged(ret.value, damage)
           r == from_json_call(graph, damage # "invalid_json", data)
       IN  /\ graph' = r.graph
           /\ ret' = [op |-> "from_json", json_data |-> data,
                      parses |-> damage # "invalid_json", raised |-> r.raised]
    /\ UNCHANGED community_available
    /\ UNCHANGED orchVars

NextGraph ==
    \/ \E id \in ClaimIds, claim \in ClaimInputs : AddClaim(id, claim)
    \/ \E id \in QueryIds, depth \in 0..MaxDepth : GetConnectedClaims(id, depth)
    \/ GetCommunityClaims
    \/ \E n \in (0 - 1)..MaxTopN : GetCentralClaims(n)
    \/ ToJson
    \/ FromJson
    \/ \E damage \in Damages : FromJsonDamaged(damage)
    \/ \E missing \in {"id", "claim_text"} : AddClaimIncomplete(missing)

SpecGraph == InitGraph /\ [][NextGraph]_vars

----------------------------------------------------------------------------
(* ClaimGraph: add_claim under any identifier, used ones included *)

InsertClaim(id, claim) ==
    LET r == add_claim(graph, id, claim)
    IN  /\ graph' = r.graph
        /\ ret' = [op |-> "add_claim", claim_id |-> id, claim |-> claim,
                   raised |-> r.raised]
        /\ UNCHANGED community_available
        /\ UNCHANGED orchVars

\* The identifiers of these calls.
InsertIds == {"A", "B"}

NextInsert == \E id \in InsertIds, claim \in ClaimInputs : InsertClaim(id, claim)

SpecInsert == InitGraph /\ [][NextInsert]_vars

----------------------------------------------------------------------------
(* Properties of ClaimGraph *)

\* The texts of the nodes other than c, in the order of the graph, followed
\* by the text of c.
TextsAround(g, c) ==
    LET others == SelectSeq(g.nodes, LAMBDA n : n.id # c)
    IN  [k \in 1..Len(others) |-> others[k].data.text]
            \o <<NodeOf(g, c).data.text>>

\* The similarity of the texts of two claims c and e of the graph: the cosine
\* of their TF-IDF rows among the texts of the graph; 0 when no text has a
\* word that counts.
TextSimilarity(g, c, e) ==
    LET others == SelectSeq(g.nodes, LAMBDA n : n.id # c)
        k == CHOOSE i \in 1..Len(others) : others[i].id = e
        texts == TextsAround(g, c)
    IN  IF Vocabulary(texts) = {} THEN 0
        ELSE cosine_similarity(texts, Len(texts), k)

SimilarityEdges(g, u, v) ==
    {e \in g.edges : e.ends = {u, v} /\ e.data.type = "similarity"}

\* C13, as stated: after add_claim(c) on a graph that already has nodes, an
\* edge of type 'similarity' joins c to a node that was there before, with
\* the similarity of the two texts as its weight, exactly when that
\* similarity is above 0.3.
C13_EdgeIffTextsSimilar ==
    (ret.op = "add_claim" /\ Len(graph.nodes) >= 2) =>
        \A e \in NodeIds(graph) \ {ret.claim_id} :
            LET similarity == TextSimilarity(graph, ret.claim_id, e)
            IN  (\E edge \in SimilarityEdges(graph, ret.claim_id, e) :
                     edge.data.weight = similarity)
                    <=> (10 * similarity > 3 * 1000)

\* C14, as stated: two claims inserted under different identifiers with the
\* same claim text are joined by a similarity edge of weight about 1.0
\* (here: 0.99 or more).  Texts of stop words alone are left aside.
C14_SameTextJoined ==
    \A u, v \in NodeIds(graph) :
        (/\ u # v
         /\ NodeOf(graph, u).data.text = NodeOf(graph, v).data.text
         /\ Tokens(NodeOf(graph, u).data.text) # <<>>) =>
            \E edge \in SimilarityEdges(graph, u, v) : edge.data.weight >= 990

\* C15, as stated: get_connected_claims(id, maxDepth) for a known id returns
\* the nodes at a shortest-path distance between 1 and maxDepth from id, with
\* their attributes, and never the node of id itself.
C15_NodesWithinDepth ==
    (ret.op = "get_connected_claims" /\ ret.claim_id \in NodeIds(graph)) =>
        /\ ret.value =
               {NodeDict(NodeOf(graph, n)) :
                   n \in {m \in NodeIds(graph) :
                             /\ ShortestPath(graph, ret.claim_id, m) >= 1
                             /\ ShortestPath(graph, ret.claim_id, m) <= ret.max_depth}}
        /\ \A d \in ret.value : d.id # ret.claim_id

\* C16: get_connected_claims with an identifier that is not a node of the
\* graph returns the empty list, raises nothing and leaves the graph as it
\* was, whatever max_depth is.
C16_UnknownIdEmpty ==
    [][(ret'.op = "get_connected_claims" /\ ret'.claim_id \notin NodeIds(graph)) =>
           /\ ret'.value = {}
           /\ ret'.raised = "none"
           /\ graph' = graph]_vars

C16_Witness ==
    /\ ret.op = "get_connected_claims"
    /\ ret.claim_id \notin NodeIds(graph)
    /\ ret.max_depth = MaxDepth
    /\ graph.edges # {}

\* C17: on a graph of 0 or 1 node get_central_claims, for every top_n, and
\* get_community_claims return an empty result.
C17_SmallGraphEmpty ==
    Len(graph.nodes) < 2 =>
        /\ ret.op = "get_central_claims" => ret.value = <<>>
        /\ ret.op = "get_community_claims" => ret.value = {}

C17_Witness ==
    /\ ret.op = "get_community_claims"
    /\ Len(graph.nodes) = 1
    /\ ~community_available

\* The groups are the connected components: every group is a non-empty set
\* of nodes, every node is in exactly one group, and two nodes are in the
\* same group exactly when a path joins them.
GroupsAreComponents(groups, g) ==
    /\ \A c \in groups : c # {} /\ c \subseteq NodeIds(g)
    /\ \A n \in NodeIds(g) : Cardinality({c \in groups : n \in c}) = 1
    /\ \A u, v \in NodeIds(g) :
           (\E c \in groups : u \in c /\ v \in c) <=> ShortestPath(g, u, v) >= 0

\* C18, as stated: when the community detection is unavailable or the graph
\* has fewer than 2 nodes, get_community_claims returns the connected
\* components, every node in exactly one group.
C18_FallbackAlsoForSmallGraphs ==
    (ret.op = "get_community_claims"
        /\ (~community_available \/ Len(graph.nodes) < 2)) =>
        GroupsAreComponents(ret.value, graph)

\* C18, amended: when the community detection is unavailable and the graph
\* has 2 nodes or more, get_community_claims returns the connected
\* components, every node in exactly one group; with fewer than 2 nodes it
\* returns no group at all.
C18_FallbackToComponents ==
    ret.op = "get_community_claims" =>
        /\ (~community_available /\ Len(graph.nodes) >= 2) =>
               GroupsAreComponents(ret.value, graph)
        /\ Len(graph.nodes) < 2 => ret.value = {}

C18_Witness ==
    /\ ret.op = "get_community_claims"
    /\ ~community_available
    /\ Len(graph.nodes) = 3
    /\ Cardinality(ret.value) = 2

\* C19: on a graph of 2 nodes or more get_central_claims(top_n), top_n >= 0,
\* returns min(top_n, number of nodes) different nodes, each with its
\* attributes and its betweenness centrality, in non-increasing order of
\* centrality, and no node left out is more central than a node returned.
C19_TopCentral ==
    (ret.op = "get_central_claims" /\ Len(graph.nodes) >= 2 /\ ret.top_n >= 0) =>
        LET n == Len(graph.nodes)
            value == ret.value
            returned == {value[k].id : k \in DOMAIN value}
            centrality == betweenness_centrality(graph)
        IN  /\ Len(value) = IF ret.top_n <= n THEN ret.top_n ELSE n
            /\ \A j, k \in DOMAIN value : j # k => value[j].id # value[k].id
            /\ \A k \in DOMAIN value :
                   /\ value[k].id \in NodeIds(graph)
                   /\ value[k].centrality = centrality[value[k].id]
                   /\ Without(value[k], {"id", "centrality"})
                          = NodeOf(graph, value[k].id).data
            /\ \A j, k \in DOMAIN value :
                   j < k => value[j].centrality >= value[k].centrality
            /\ \A out \in NodeIds(graph) \ returned : \A k \in DOMAIN value :
                   centrality[out] <= value[k].centrality

C19_Witness ==
    /\ ret.op = "get_central_claims"
    /\ ret.top_n = 1
    /\ Len(graph.nodes) = 3
    /\ Len(ret.value) = 1
    /\ ret.value[1].id = "C"
    /\ ret.value[1].centrality = CentralityOne

\* C20: from_json(to_json(g)) has the nodes of g with their attributes and
\* the edges of g with their attributes (weight, type), for every graph g
\* that add_claim calls build.
C20_RoundTrip ==
    [][(ret.op = "to_json" /\ ret'.op = "from_json"
            /\ ret'.parses /\ ret'.json_data = ret.value) =>
           /\ NodeIds(graph') = NodeIds(graph)
           /\ \A n \in NodeIds(graph) :
                  NodeOf(graph', n).data = NodeOf(graph, n).data
           /\ {e.ends : e \in graph'.edges} = {e.ends : e \in graph.edges}
           /\ \A e \in graph.edges : \E f \in graph'.edges :
                  /\ f.ends = e.ends
                  /\ f.data.weight = e.data.weight
                  /\ f.data.type = e.data.type]_vars

C20_Witness ==
    /\ ret.op = "from_json"
    /\ ret.raised = "none"
    /\ Len(graph.nodes) = 3
    /\ Cardinality(graph.edges) = 2
    /\ Cardinality(ret.json_data.edges) = 2

----------------------------------------------------------------------------
(* Properties of ClaimGraph, continued *)

\* C21, as stated, its half about the graph: a from_json that fails on a
\* malformed, partial or corrupt document leaves the graph exactly as it was
\* before the call.
C21_FailedLoadLeavesGraph ==
    [][(ret'.op = "from_json" /\ ret'.raised # "none") => graph' = graph]_vars

\* The ends of the edges of a graph.
EdgeEnds(g) == {e.ends : e \in g.edges}

\* C22, as stated, for the operations that return without raising: every
\* node and every edge present before an operation, from_json included, is
\* still present after it.
C22_GrowsAlways ==
    [][(ret'.op = "from_json" => ret'.raised = "none") =>
           /\ NodeIds(graph) \subseteq NodeIds(graph')
           /\ EdgeEnds(graph) \subseteq EdgeEnds(graph')]_vars

\* C22, amended: across add_claim, the queries and to_json every node and
\* every edge present before the operation is still present after it, with
\* its attributes; from_json replaces the graph by that of the document.
C22_GrowsButForLoad ==
    [][ret'.op # "from_json" =>
           /\ \A k \in DOMAIN graph.nodes :
                  k \in DOMAIN graph'.nodes /\ graph'.nodes[k] = graph.nodes[k]
           /\ graph.edges \subseteq graph'.edges]_vars

C22_Witness ==
    /\ ret.op = "add_claim"
    /\ ret.raised = "none"
    /\ Len(graph.nodes) = 3
    /\ Cardinality(graph.edges) = 3

\* C23, as stated: an add_claim, also one under an identifier already in the
\* graph, leaves every identifier naming one node and changes neither the
\* attributes of the nodes present before nor the edges between them.
C23_InsertedOnce ==
    [][ret'.op = "add_claim" =>
           /\ \A j, k \in DOMAIN graph'.nodes :
                  graph'.nodes[j].id = graph'.nodes[k].id => j = k
           /\ \A n \in NodeIds(graph) :
                  /\ n \in NodeIds(graph')
                  /\ NodeOf(graph', n).data = NodeOf(graph, n).data
           /\ {e \in graph'.edges : e.ends \subseteq NodeIds(graph)}
                  = graph.edges]_vars

\* C24: get_connected_claims, get_community_claims, get_central_claims and
\* to_json leave the nodes, the edges and all attributes as they were, and
\* what each returns is what it returns for that graph when called alone, so
\* any interleaving of them returns the results of running them in a row.
C24_QueriesReadOnly ==
    [][ret'.op \in {"get_connected_claims", "get_community_claims",
                    "get_central_claims", "to_json"} =>
           /\ graph' = graph
           /\ community_available' = community_available
           /\ ret'.op = "get_connected_claims" =>
                  ret'.value = get_connected_claims(graph, ret'.claim_id,
                                                    ret'.max_depth).value
           /\ ret'.op = "get_community_claims" =>
                  ret'.value \in get_community_claims(graph, community_available)
           /\ ret'.op = "get_central_claims" =>
                  ret'.value = get_central_claims(graph, ret'.top_n)
           /\ ret'.op = "to_json" => ret'.value = to_json(graph)]_vars

C24_Witness ==
    /\ ret.op = "get_central_claims"
    /\ ret.top_n = MaxTopN
    /\ Len(ret.value) = 3
    /\ graph.edges # {}

C30_FailedAddLeavesGraph ==
    [][(ret'.op = "add_claim" /\ ret'.raised # "none") => graph' = graph]_vars

----------------------------------------------------------------------------
(* _analyze_clarity on its own: any key, outcome and list, one application *)

InitAnalyzeClarity ==
    /\ OrchIdle
    /\ graph = EmptyGraph
    /\ community_available = FALSE
    /\ \E has_key \in BOOLEAN, outcome \in ClarityOutcomes, claims \in ClaimLists :
           ret = [op |-> "_analyze_clarity_in", has_key |-> has_key,
                  outcome |-> outcome, claims |-> claims, value |-> NoTaskResult]

CallAnalyzeClarity ==
    /\ ret.op = "_analyze_clarity_in"
    /\ ret' = [ret EXCEPT !.op = "_analyze_clarity_out",
                          !.value = _analyze_clarity(ret.has_key, ret.outcome,
                                                     ret.claims)]
    /\ UNCHANGED <<graph, community_available>>
    /\ UNCHANGED orchVars

NextAnalyzeClarity == CallAnalyzeClarity

SpecAnalyzeClarity == InitAnalyzeClarity /\ [][NextAnalyzeClarity]_vars

----------------------------------------------------------------------------
(* Properties of analyze, continued *)

\* C25: the verdict level of every result analyze returns, with or without
\* conflicts and also for a failed call, is High Confidence, Moderate
\* Confidence, Low Confidence or Insufficient Data, never Conflicting
\* Evidence.
C25_VerdictLevelClosed ==
    pc \in {"returned", "verdict_out"} =>
        /\ result.verdict_level \in {"High Confidence", "Moderate Confidence",
                                     "Low Confidence", "Insufficient Data"}
        /\ result.verdict_level # "Conflicting Evidence"

C25_Witness ==
    /\ pc = "verdict_out"
    /\ result.conflicts # <<>>
    /\ result.verdict_level = "High Confidence"

\* The steps a call takes: validate and dispatch (or fail), collect, then
\* aggregate, classify and return, then the caller's next call.
PipelineSteps ==
    {<<"idle", "gathering">>, <<"idle", "returned">>,
     <<"gathering", "gathering">>, <<"gathering", "returned">>,
     <<"returned", "idle">>}

\* C26: each analyze call goes once through validate, dispatch, collect,
\* aggregate, classify, return, in this order: analyzers are started only by
\* the step that validates, and none when validation fails; every analyzer
\* started has finished before the aggregation, which reads the slots the
\* collection filled from what the analyzers returned; nothing of a call is
\* left when the next one starts.
C26_OneShotPipeline ==
    [][/\ <<pc, pc'>> \in PipelineSteps
       /\ \A t \in TaskNames :
              /\ (taskState[t] = "none" /\ taskState'[t] # "none") =>
                     /\ pc = "idle"
                     /\ pc' = "gathering"
                     /\ result'.kind = "analysis"
                     /\ text_claim' \notin {"None", ""} \/ media_path' \notin {"None", ""}
              /\ (taskState[t] \in {"done", "hung"} /\ pc' # "idle") =>
                     taskState'[t] = taskState[t]
       /\ (pc = "idle" /\ pc' = "returned") =>
              /\ result'.kind = "error"
              /\ \A t \in TaskNames : taskState'[t] = "none"
       /\ (pc = "gathering" /\ pc' = "returned") =>
              /\ result'.kind = "analysis"
              /\ \A t \in TaskNames :
                     /\ taskState[t] \in {"none", "done"}
                     /\ taskState[t] = "done" =>
                            Slot(t)' = taskResult[t].value
                     /\ taskState[t] = "none" => Slot(t)' = None
              /\ result'.confidence_score =
                     CountedContribution("clarity")' + CountedContribution("media")'
                         + CountedContribution("context")'
       /\ pc' = "idle" =>
              /\ result' = NoResult
              /\ tasks' = <<>>
              /\ completion' = <<>>
              /\ \A t \in TaskNames :
                     taskState'[t] = "none" /\ taskResult'[t] = NoTaskResult]_vars

C26_Witness ==
    /\ pc = "returned"
    /\ result.kind = "analysis"
    /\ Len(completion) = 3
    /\ completion[1] = "media"
    /\ \A t \in TaskNames : Slot(t).present

\* C28: with the default weights and confidences in [0, 1], a result without
\* a media analysis has an overall confidence of at most 0.7 and is never
\* High Confidence; a result with a media analysis alone has at most 0.3 and
\* is Insufficient Data.
C28_PartialRequestCapped ==
    pc = "verdict_out" =>
        /\ ~result.media_analysis.present =>
               /\ result.confidence_score <= 7 * 3000
               /\ result.verdict_level # "High Confidence"
        /\ (/\ result.media_analysis.present
            /\ ~result.clarity_analysis.present
            /\ ~result.context_analysis.present) =>
               /\ result.confidence_score <= 3 * 3000
               /\ result.verdict_level = "Insufficient Data"

C28_Witness ==
    /\ pc = "verdict_out"
    /\ ~result.media_analysis.present
    /\ result.confidence_score = 7 * 3000
    /\ result.verdict_level = "Moderate Confidence"

\* C29, as stated, its first half: with the API key configured and a
\* non-empty list returned by the clarity agent, _analyze_clarity yields a
\* result with status 'success' and the confidence of
\* _calculate_clarity_confidence.
C29_ClaritySucceeds ==
    (/\ ret.op = "_analyze_clarity_out"
     /\ ret.has_key
     /\ ret.outcome = "list_returned"
     /\ ret.claims # <<>>) =>
        /\ ret.value.key = "clarity"
        /\ ret.value.value.status = "success"
        /\ ret.value.value.conf = _calculate_clarity_confidence(ret.claims)

====
